---- MODULE Spec2Model ----
(***************************************************************************)
(* Model of the IELTS answer form (qt_app): the two SectionPanels with     *)
(* their user/key line edits and status labels, the MainWindow page stack  *)
(* and score label, the answer-key text parser, the answer normalisation   *)
(* and the band lookup tables.                                             *)
(*                                                                         *)
(* A QString is modelled as a sequence of one-character strings, so that   *)
(* trimming, lower-casing, regular-expression replacement and splitting    *)
(* are computed character by character.                                    *)
(***************************************************************************)
EXTENDS Integers, Sequences, FiniteSets, TLC

VARIABLES
    currentIndex,   \* stack_->currentIndex(): 0 landing, 1 Listening, 2 Reading
    userText,       \* userText[p][i]: text of userEdits_[i-1] of panel p
    keyText,        \* keyText[p][i]: text of keyEdits_[i-1] of panel p
    statusText,     \* statusText[p][i]: content of statusLabels_[i-1] of panel p
    scoreText,      \* text of scoreLabel_
    msg,            \* message box shown by the last handler
    lastOp,         \* the slot (handler) that ran last
    pasteDialog,    \* result of the paste dialog of the last handler, and its text
    edits,          \* number of inputs (typed texts, accepted pastes) so far
    normX, normY, normOut,            \* normalizeAnswer applied to two strings
    bandSection, bandCorrect, bandOut, \* lookupBand applied to an input
    parseIn, parseOut                  \* parseAnswerText applied to a text

uiVars == <<currentIndex, userText, keyText, statusText, scoreText, msg,
            lastOp, pasteDialog, edits>>
normVars == <<normX, normY, normOut>>
bandVars == <<bandSection, bandCorrect, bandOut>>
parseVars == <<parseIn, parseOut>>
vars == <<currentIndex, userText, keyText, statusText, scoreText, msg,
          lastOp, pasteDialog, edits, normX, normY, normOut, bandSection, bandCorrect,
          bandOut, parseIn, parseOut>>

(***************************************************************************)
(* Program constants                                                       *)
(***************************************************************************)
kNumQuestions == 40
kMaxLength == 32

\* Sum of the group counts of listeningGroups() / readingGroups().
listeningGroups == <<10, 10, 10, 10>>
readingGroups == <<13, 13, 14>>

RECURSIVE SumSeq(_)
SumSeq(s) == IF s = <<>> THEN 0 ELSE Head(s) + SumSeq(Tail(s))

Panels == {1, 2}
sectionNameOf(p) == IF p = 1 THEN "Listening" ELSE "Reading"

\* buildGrid appends one edit per row of every group.
questionCount(p) == SumSeq(IF p = 1 THEN listeningGroups ELSE readingGroups)
Slots(p) == 1..questionCount(p)

(***************************************************************************)
(* Bounds of the model                                                     *)
(***************************************************************************)
\* Number of inputs (texts typed into an edit, accepted pastes) of a run.
MaxEdits == 2
\* Length of the strings the normalisation is explored on.
MaxLen == 3
\* Question numbers and answers of a generated paste line.
MaxNums == 3
MaxAnswers == 2

(***************************************************************************)
(* QString helpers                                                         *)
(***************************************************************************)
UpperChars == <<"A","B","C","D","E","F","G","H","I","J","K","L","M",
                "N","O","P","Q","R","S","T","U","V","W","X","Y","Z">>
LowerChars == <<"a","b","c","d","e","f","g","h","i","j","k","l","m",
                "n","o","p","q","r","s","t","u","v","w","x","y","z">>
DigitChars == <<"0","1","2","3","4","5","6","7","8","9">>

Range(s) == {s[i] : i \in DOMAIN s}
IndexOf(c, s) == CHOOSE i \in DOMAIN s : s[i] = c

\* QChar::isSpace and the regular expression class \s
isSpace(c) == c \in {" ", "\t", "\n", "\r"}
isDigit(c) == c \in Range(DigitChars)

toLowerChar(c) == IF c \in Range(UpperChars) THEN LowerChars[IndexOf(c, UpperChars)] ELSE c
toLower(s) == [i \in 1..Len(s) |-> toLowerChar(s[i])]

\* QString::trimmed: whitespace removed from both ends.
trimmed(s) ==
    LET keep == {i \in 1..Len(s) : ~isSpace(s[i])}
    IN IF keep = {} THEN <<>>
       ELSE LET lo == CHOOSE i \in keep : \A j \in keep : i <= j
                hi == CHOOSE i \in keep : \A j \in keep : j <= i
            IN SubSeq(s, lo, hi)

\* QString::left(n)
left(s, n) == IF Len(s) <= n THEN s ELSE SubSeq(s, 1, n)

isEmpty(s) == Len(s) = 0

\* QString::startsWith(prefix, Qt::CaseInsensitive)
startsWithCI(s, prefix) ==
    /\ Len(s) >= Len(prefix)
    /\ toLower(SubSeq(s, 1, Len(prefix))) = toLower(prefix)

(***************************************************************************)
(* normalizeAnswer                                                         *)
(***************************************************************************)
\* cleaned.replace(re, "") with re = [\s\-]+ : every run of whitespace and
\* hyphen characters is replaced by the empty string.
RECURSIVE replaceRuns(_)
replaceRuns(s) ==
    IF s = <<>> THEN <<>>
    ELSE IF isSpace(Head(s)) \/ Head(s) = "-" THEN replaceRuns(Tail(s))
    ELSE <<Head(s)>> \o replaceRuns(Tail(s))

\* Variant without toLower().
normalizeAnswer_noLower(raw) == replaceRuns(trimmed(raw))

normalizeAnswer(raw) ==
    LET cleaned == toLower(trimmed(raw))
    IN replaceRuns(cleaned)

(***************************************************************************)
(* SectionPanel                                                            *)
(***************************************************************************)
\* answers() and answerKeys(): the trimmed text of every edit.
answers(p) == [i \in Slots(p) |-> trimmed(userText[p][i])]
answerKeys(p) == [i \in Slots(p) |-> trimmed(keyText[p][i])]

\* Body of the loop of evaluate() for one question: the new content of the
\* status label and the increments of the two counters.
\* Variant that tests the key text as typed, without trimmed().
evaluateSlot_rawKey(user, rawKey) ==
    LET key == rawKey
    IN IF isEmpty(key)
       THEN [status |-> "", evaluated |-> 0, correct |-> 0]
       ELSE LET ok == normalizeAnswer(trimmed(user)) = normalizeAnswer(key)
            IN [status |-> IF ok THEN "correct" ELSE "incorrect",
                evaluated |-> 1,
                correct |-> IF ok THEN 1 ELSE 0]

evaluateSlot(user, rawKey) ==
    LET key == trimmed(rawKey)
    IN IF isEmpty(key)
       THEN [status |-> "", evaluated |-> 0, correct |-> 0]
       ELSE LET ok == normalizeAnswer(trimmed(user)) = normalizeAnswer(key)
            IN [status |-> IF ok THEN "correct" ELSE "incorrect",
                evaluated |-> 1,
                correct |-> IF ok THEN 1 ELSE 0]

\* evaluate(): the loop over i = 0 .. total-1, carrying the two counters and
\* the status labels.
RECURSIVE evaluateLoop(_, _, _, _, _, _)
evaluateLoop(i, users, keys, correct, evaluated, status) ==
    IF i > Len(users)
    THEN [correct |-> correct, evaluated |-> evaluated, status |-> status]
    ELSE LET r == evaluateSlot(users[i], keys[i])
         IN evaluateLoop(i + 1, users, keys, correct + r.correct,
                         evaluated + r.evaluated,
                         [status EXCEPT ![i] = r.status])

evaluate(users, keys, status) == evaluateLoop(1, users, keys, 0, 0, status)

\* resetFeedback(): every status label cleared.
resetFeedback(status) == [i \in DOMAIN status |-> ""]

\* clearAnswers() / clearKeys(): every edit cleared.
clearEdits(lineEdits) == [i \in DOMAIN lineEdits |-> <<>>]

\* QLineEdit::setText on an edit with setMaxLength(kMaxLength).
setText(text) == left(text, kMaxLength)

\* applyParsedAnswers(mapping): the new key texts.
\* Variant that takes index for questionNumber (index + 1 forgotten).
applyParsedAnswers_shifted(keys, mapping) ==
    [i \in DOMAIN keys |->
        IF (i - 1) \in DOMAIN mapping THEN setText(mapping[i - 1]) ELSE keys[i]]

applyParsedAnswers(keys, mapping) ==
    [i \in DOMAIN keys |->
        IF i \in DOMAIN mapping THEN setText(mapping[i]) ELSE keys[i]]

(***************************************************************************)
(* Band tables and lookupBand; a band is held in tenths (9.0 is 90).        *)
(***************************************************************************)
listeningBandTable ==
    << <<39, 90>>, <<37, 85>>, <<35, 80>>, <<32, 75>>, <<30, 70>>,
       <<26, 65>>, <<23, 60>>, <<18, 55>>, <<16, 50>>, <<13, 45>>,
       <<11, 40>>, <<8, 35>>,  <<6, 30>>,  <<4, 25>>,  <<0, 20>> >>

readingBandTable ==
    << <<39, 90>>, <<37, 85>>, <<35, 80>>, <<33, 75>>, <<30, 70>>,
       <<27, 65>>, <<23, 60>>, <<19, 55>>, <<15, 50>>, <<13, 45>>,
       <<10, 40>>, <<8, 35>>,  <<6, 30>>,  <<4, 25>>,  <<0, 20>> >>

\* The value returned when the loop ends without a hit (0.0).
fallThroughBand == 0

\* Variant with correct > pair.first.
lookupBand_strict(sectionName, correct) ==
    LET table == IF sectionName = "Listening" THEN listeningBandTable ELSE readingBandTable
        hits == {i \in 1..Len(table) : correct > table[i][1]}
    IN IF hits = {} THEN fallThroughBand
       ELSE table[CHOOSE i \in hits : \A j \in hits : i <= j][2]

\* The for loop returns at the first pair with correct >= pair.first.
lookupBand(sectionName, correct) ==
    LET table == IF sectionName = "Listening" THEN listeningBandTable ELSE readingBandTable
        hits == {i \in 1..Len(table) : correct >= table[i][1]}
    IN IF hits = {} THEN fallThroughBand
       ELSE table[CHOOSE i \in hits : \A j \in hits : i <= j][2]

(***************************************************************************)
(* parseAnswerText                                                         *)
(***************************************************************************)
\* QString::split(sep): the parts between the separators, empty parts kept.
RECURSIVE splitFrom(_, _, _)
splitFrom(s, sep, cur) ==
    IF s = <<>> THEN <<cur>>
    ELSE IF Head(s) = sep THEN <<cur>> \o splitFrom(Tail(s), sep, <<>>)
    ELSE splitFrom(Tail(s), sep, Append(cur, Head(s)))

split(s, sep) == splitFrom(s, sep, <<>>)

\* Length of the run of whitespace (of digits) that starts at position i.
RECURSIVE spaceRun(_, _)
spaceRun(s, i) == IF i <= Len(s) /\ isSpace(s[i]) THEN 1 + spaceRun(s, i + 1) ELSE 0

RECURSIVE digitRun(_, _)
digitRun(s, i) == IF i <= Len(s) /\ isDigit(s[i]) THEN 1 + digitRun(s, i + 1) ELSE 0

\* split(QRegularExpression("\s*,\s*")): scanning from the left, a match at
\* position i is a whitespace run, a comma and the whitespace after it.
RECURSIVE splitCommaFrom(_, _, _)
splitCommaFrom(s, i, cur) ==
    IF i > Len(s) THEN <<cur>>
    ELSE LET w == spaceRun(s, i)
         IN IF i + w <= Len(s) /\ s[i + w] = ","
            THEN <<cur>> \o splitCommaFrom(s, i + w + 1 + spaceRun(s, i + w + 1), <<>>)
            ELSE splitCommaFrom(s, i + 1, Append(cur, s[i]))

\* ... with Qt::SkipEmptyParts
splitAnswers(s) == SelectSeq(splitCommaFrom(s, 1, <<>>), LAMBDA t : ~isEmpty(t))

\* Position after the longest \d+(?:&\d+)* that starts at i; 0 when no digit
\* stands at i.
RECURSIVE chainEnd(_, _)
chainEnd(s, i) ==
    LET d == digitRun(s, i)
    IN IF d = 0 THEN 0
       ELSE IF i + d <= Len(s) /\ s[i + d] = "&" /\ digitRun(s, i + d + 1) > 0
            THEN chainEnd(s, i + d + 1)
            ELSE i + d

\* lineRe.match(line) for lineRe = ^\s*(\d+(?:&\d+)*)\s+(.+)$ .  The chain
\* cannot be shortened to make \s+ match; \s+ gives back one character when
\* it reaches the end of the line, so that (.+) is not empty.
lineReMatch(line) ==
    LET start == 1 + spaceRun(line, 1)
        e == chainEnd(line, start)
        w == IF e = 0 THEN 0 ELSE spaceRun(line, e)
        restAt == IF e + w > Len(line) THEN Len(line) ELSE e + w
    IN IF e = 0 \/ w = 0 \/ restAt <= e
       THEN [hasMatch |-> FALSE, captured1 |-> <<>>, captured2 |-> <<>>]
       ELSE [hasMatch |-> TRUE,
             captured1 |-> SubSeq(line, start, e - 1),
             captured2 |-> SubSeq(line, restAt, Len(line))]

\* QString::toInt of a string of digits.  The value is followed up to
\* kNumQuestions + 1 only: a larger value, and a value toInt rejects as out
\* of the int range, both take the same `continue'.
RECURSIVE toIntFrom(_, _)
toIntFrom(digits, acc) ==
    IF digits = <<>> THEN acc
    ELSE LET v == acc * 10 + (IndexOf(Head(digits), DigitChars) - 1)
         IN toIntFrom(Tail(digits), IF v > kNumQuestions THEN kNumQuestions + 1 ELSE v)

toInt(digits) == toIntFrom(digits, 0)

\* answers.value(i, answers.last()) for the 0-based i = pos - 1
\* Variant with answers.first() as the default.
answerAt_first(answerList, pos) ==
    IF pos <= Len(answerList) THEN answerList[pos] ELSE answerList[1]

answerAt(answerList, pos) ==
    IF pos <= Len(answerList) THEN answerList[pos] ELSE answerList[Len(answerList)]

\* The loop over numberParts: mapping[qNum] = answer.trimmed()
RECURSIVE assignNumbers(_, _, _, _)
assignNumbers(mapping, numberParts, answerList, pos) ==
    IF pos > Len(numberParts) THEN mapping
    ELSE LET qNum == toInt(numberParts[pos])
         IN IF qNum < 1 \/ qNum > kNumQuestions
            THEN assignNumbers(mapping, numberParts, answerList, pos + 1)
            ELSE assignNumbers((qNum :> trimmed(answerAt(answerList, pos))) @@ mapping,
                               numberParts, answerList, pos + 1)

\* Body of the loop over the lines of the text.
parseLine(mapping, rawLine) ==
    LET line == trimmed(rawLine)
        match == lineReMatch(line)
        answersToken == trimmed(match.captured2)
        numberParts == split(match.captured1, "&")
        parts == splitAnswers(answersToken)
        answerList == IF parts = <<>> THEN <<answersToken>> ELSE parts
    IN IF isEmpty(line) THEN mapping
       ELSE IF \/ startsWithCI(line, <<"p","a","r","t">>)
               \/ startsWithCI(line, <<"p","a","s","s","a","g","e">>)
               \/ Head(line) = "("
            THEN mapping
       ELSE IF ~match.hasMatch THEN mapping
       ELSE IF isEmpty(answersToken) THEN mapping
       ELSE assignNumbers(mapping, numberParts, answerList, 1)

RECURSIVE parseLines(_, _)
parseLines(mapping, lines) ==
    IF lines = <<>> THEN mapping
    ELSE parseLines(parseLine(mapping, Head(lines)), Tail(lines))

parseAnswerText(text) == parseLines(<<>>, split(text, "\n"))

(***************************************************************************)
(* Inputs of the user                                                      *)
(***************************************************************************)
Rep(c, n) == [i \in 1..n |-> c]

\* Question the user types into; the other questions get their keys by paste.
TypedSlots == {1}
\* Texts typed into a user edit and into a key edit (at most kMaxLength long).
UserTyped == { <<"A"," ","b">>, <<"x">> }
KeyTyped == { <<" ">>, <<"a","-","b">> }

\* Texts accepted in the paste dialog.
pasteKeysText ==
    <<"P","a","r","t"," ","1","\n",
      "1"," "," ","a"," ","b","\n",
      "2","1","&","2","2"," "," "," ","A",","," ","E","\n",
      "4","0"," ","-">>
pasteLongText == <<"7"," "," ">> \o Rep("a", kMaxLength + 1)
pasteNoiseText == <<"h","e","l","l","o","\n","(","4",")"," ","x">>
PasteTexts == {pasteKeysText, pasteLongText, pasteNoiseText}

(***************************************************************************)
(* MainWindow                                                              *)
(***************************************************************************)
NoText == <<>>
NoPanel == 0
NoDialog == [accepted |-> FALSE, text |-> <<>>]

\* activePanel(): the panel of the current page, or nullptr (NoPanel).
\* Variant that falls back to the Listening panel on the landing page.
activePanel_neverNull == IF currentIndex = 2 THEN 2 ELSE 1

activePanel == IF currentIndex = 1 THEN 1 ELSE IF currentIndex = 2 THEN 2 ELSE NoPanel

\* updateScoreLabel(text): scoreLabel_->setText(text)
\* Variant that ignores an empty text.
updateScoreLabel_keepsOld(text) == scoreText' = IF text = NoText THEN scoreText ELSE text

updateScoreLabel(text) == scoreText' = text

\* The score text "%1: %2/%3 correct · Band %4" as the tuple of its arguments.
scoreLine(sectionName, correct, total, band) == <<sectionName, correct, total, band>>

UIInit ==
    /\ currentIndex = 0
    /\ userText = [p \in Panels |-> [i \in Slots(p) |-> <<>>]]
    /\ keyText = [p \in Panels |-> [i \in Slots(p) |-> <<>>]]
    /\ statusText = [p \in Panels |-> [i \in Slots(p) |-> ""]]
    /\ scoreText = NoText
    /\ msg = ""
    /\ lastOp = "init"
    /\ pasteDialog = NoDialog
    /\ edits = 0

\* The user types a text into a user edit of the page shown.
typeUser ==
    /\ activePanel # NoPanel
    /\ edits < MaxEdits
    /\ \E i \in TypedSlots, text \in UserTyped :
          /\ userText[activePanel][i] # text
          /\ userText' = [userText EXCEPT ![activePanel][i] = text]
    /\ edits' = edits + 1
    /\ lastOp' = "typeUser"
    /\ pasteDialog' = NoDialog
    /\ msg' = ""
    /\ UNCHANGED <<currentIndex, keyText, statusText, scoreText>>

\* The user types a text into a key edit of the page shown.
typeKey ==
    /\ activePanel # NoPanel
    /\ edits < MaxEdits
    /\ \E i \in TypedSlots, text \in KeyTyped :
          /\ keyText[activePanel][i] # text
          /\ keyText' = [keyText EXCEPT ![activePanel][i] = text]
    /\ edits' = edits + 1
    /\ lastOp' = "typeKey"
    /\ pasteDialog' = NoDialog
    /\ msg' = ""
    /\ UNCHANGED <<currentIndex, userText, statusText, scoreText>>

\* Variant without updateScoreLabel(QString()).
showLanding_keepsScore ==
    /\ currentIndex # 0
    /\ currentIndex' = 0
    /\ lastOp' = "showLanding"
    /\ pasteDialog' = NoDialog
    /\ msg' = ""
    /\ UNCHANGED <<userText, keyText, statusText, scoreText, edits>>

\* The back button is on the section pages.
showLanding ==
    /\ currentIndex # 0
    /\ currentIndex' = 0
    /\ updateScoreLabel(NoText)
    /\ lastOp' = "showLanding"
    /\ pasteDialog' = NoDialog
    /\ msg' = ""
    /\ UNCHANGED <<userText, keyText, statusText, edits>>

\* The two cards are on the landing page.
startListening ==
    /\ currentIndex = 0
    /\ currentIndex' = 1
    /\ updateScoreLabel(NoText)
    /\ lastOp' = "startListening"
    /\ pasteDialog' = NoDialog
    /\ msg' = ""
    /\ UNCHANGED <<userText, keyText, statusText, edits>>

startReading ==
    /\ currentIndex = 0
    /\ currentIndex' = 2
    /\ updateScoreLabel(NoText)
    /\ lastOp' = "startReading"
    /\ pasteDialog' = NoDialog
    /\ msg' = ""
    /\ UNCHANGED <<userText, keyText, statusText, edits>>

\* Variant without the test for missing answer keys.
submitAnswers_evaluatesBlank ==
    /\ lastOp' = "submitAnswers"
    /\ pasteDialog' = NoDialog
    /\ IF activePanel = NoPanel
       THEN /\ msg' = "information: Select a section"
            /\ UNCHANGED <<statusText, scoreText>>
       ELSE LET panel == activePanel
                sectionName == sectionNameOf(panel)
                r == evaluate(userText[panel], keyText[panel], statusText[panel])
                band == lookupBand(sectionName, r.correct)
            IN /\ msg' = ""
               /\ statusText' = [statusText EXCEPT ![panel] = r.status]
               /\ updateScoreLabel(scoreLine(sectionName, r.correct,
                                             questionCount(panel), band))
    /\ UNCHANGED <<currentIndex, userText, keyText, edits>>

\* Variant that writes the trimmed keys back into the key edits.
submitAnswers_writesTrimmed ==
    /\ lastOp' = "submitAnswers"
    /\ pasteDialog' = NoDialog
    /\ IF activePanel = NoPanel
       THEN /\ msg' = "information: Select a section"
            /\ UNCHANGED <<statusText, scoreText, keyText>>
       ELSE LET panel == activePanel
                sectionName == sectionNameOf(panel)
                keys == answerKeys(panel)
            IN IF \A i \in DOMAIN keys : isEmpty(keys[i])
               THEN /\ msg' = "warning: Missing answer keys"
                    /\ UNCHANGED <<statusText, scoreText, keyText>>
               ELSE LET r == evaluate(userText[panel], keyText[panel], statusText[panel])
                        band == lookupBand(sectionName, r.correct)
                    IN /\ msg' = ""
                       /\ keyText' = [keyText EXCEPT ![panel] = keys]
                       /\ statusText' = [statusText EXCEPT ![panel] = r.status]
                       /\ updateScoreLabel(scoreLine(sectionName, r.correct,
                                                     questionCount(panel), band))
    /\ UNCHANGED <<currentIndex, userText, edits>>

submitAnswers ==
    /\ lastOp' = "submitAnswers"
    /\ pasteDialog' = NoDialog
    /\ IF activePanel = NoPanel
       THEN /\ msg' = "information: Select a section"
            /\ UNCHANGED <<statusText, scoreText>>
       ELSE LET panel == activePanel
                sectionName == sectionNameOf(panel)
                keys == answerKeys(panel)
            IN IF \A i \in DOMAIN keys : isEmpty(keys[i])
               THEN /\ msg' = "warning: Missing answer keys"
                    /\ UNCHANGED <<statusText, scoreText>>
               ELSE LET r == evaluate(userText[panel], keyText[panel], statusText[panel])
                        band == lookupBand(sectionName, r.correct)
                    IN /\ msg' = ""
                       /\ statusText' = [statusText EXCEPT ![panel] = r.status]
                       /\ updateScoreLabel(scoreLine(sectionName, r.correct,
                                                     questionCount(panel), band))
    /\ UNCHANGED <<currentIndex, userText, keyText, edits>>

previewAnswers ==
    /\ lastOp' = "previewAnswers"
    /\ pasteDialog' = NoDialog
    /\ IF activePanel = NoPanel
       THEN msg' = "information: Select a section"
       ELSE msg' = "information: Preview"
    /\ UNCHANGED <<currentIndex, userText, keyText, statusText, scoreText, edits>>

\* Variant without clearKeys().
clearActive_answersOnly ==
    /\ lastOp' = "clearActive"
    /\ pasteDialog' = NoDialog
    /\ IF activePanel = NoPanel
       THEN /\ msg' = "information: Select a section"
            /\ UNCHANGED <<userText, keyText, statusText, scoreText>>
       ELSE LET panel == activePanel
            IN /\ msg' = ""
               /\ userText' = [userText EXCEPT ![panel] = clearEdits(@)]
               /\ keyText' = keyText
               /\ statusText' = [statusText EXCEPT ![panel] = resetFeedback(@)]
               /\ updateScoreLabel(NoText)
    /\ UNCHANGED <<currentIndex, edits>>

clearActive ==
    /\ lastOp' = "clearActive"
    /\ pasteDialog' = NoDialog
    /\ IF activePanel = NoPanel
       THEN /\ msg' = "information: Select a section"
            /\ UNCHANGED <<userText, keyText, statusText, scoreText>>
       ELSE LET panel == activePanel
            IN /\ msg' = ""
               \* clearAnswers(), clearKeys(); each ends with resetFeedback()
               /\ userText' = [userText EXCEPT ![panel] = clearEdits(@)]
               /\ keyText' = [keyText EXCEPT ![panel] = clearEdits(@)]
               /\ statusText' = [statusText EXCEPT ![panel] = resetFeedback(resetFeedback(@))]
               /\ updateScoreLabel(NoText)
    /\ UNCHANGED <<currentIndex, edits>>

\* The file is written outside the program: no handler reads it back, and
\* the window keeps nothing of it.  pathChosen is the result of the file
\* dialog, opened the result of QFile::open.
saveAnswers ==
    /\ lastOp' = "saveAnswers"
    /\ pasteDialog' = NoDialog
    /\ IF activePanel = NoPanel
       THEN msg' = "information: Select a section"
       ELSE \E pathChosen \in BOOLEAN, opened \in BOOLEAN :
               IF ~pathChosen THEN msg' = ""
               ELSE IF ~opened THEN msg' = "critical: Unable to save"
               ELSE msg' = ""
    /\ UNCHANGED <<currentIndex, userText, keyText, statusText, scoreText, edits>>

\* parseAnswerText(editor->toPlainText()) for the texts of PasteTexts
parsedPaste == [text \in PasteTexts |-> parseAnswerText(text)]

pasteAnswerKeys ==
    /\ lastOp' = "pasteAnswerKeys"
    /\ IF activePanel = NoPanel
       THEN /\ msg' = "information: Select a section"
            /\ pasteDialog' = NoDialog
            /\ UNCHANGED <<keyText, statusText, scoreText, edits>>
       ELSE \E accepted \in BOOLEAN, text \in PasteTexts :
               IF ~accepted
               THEN /\ msg' = ""
                    /\ pasteDialog' = NoDialog
                    /\ UNCHANGED <<keyText, statusText, scoreText, edits>>
               ELSE LET mapping == parsedPaste[text]
                        panel == activePanel
                    IN /\ pasteDialog' = [accepted |-> TRUE, text |-> text]
                       /\ IF DOMAIN mapping = {}
                          THEN /\ msg' = "warning: No answers detected"
                               /\ UNCHANGED <<keyText, statusText, scoreText, edits>>
                          ELSE /\ edits < MaxEdits
                               /\ edits' = edits + 1
                               /\ msg' = ""
                               /\ keyText' = [keyText EXCEPT ![panel] = applyParsedAnswers(@, mapping)]
                               /\ statusText' = [statusText EXCEPT ![panel] = resetFeedback(@)]
                               /\ updateScoreLabel(NoText)
    /\ UNCHANGED <<currentIndex, userText>>

(***************************************************************************)
(* lookupBand on every section and every count 0 .. kNumQuestions           *)
(***************************************************************************)
BandPending == -1
SectionNames == {sectionNameOf(p) : p \in Panels}

InitBand ==
    /\ UIInit
    /\ normX = <<>> /\ normY = <<>> /\ normOut = <<>>
    /\ parseIn = <<>> /\ parseOut = <<>>
    /\ bandSection \in SectionNames
    /\ bandCorrect \in 0..kNumQuestions
    /\ bandOut = BandPending

lookupBandStep ==
    /\ bandOut = BandPending
    /\ bandOut' = lookupBand(bandSection, bandCorrect)
    /\ UNCHANGED <<bandSection, bandCorrect, uiVars, normVars, parseVars>>

NextBand == lookupBandStep

SpecBand == InitBand /\ [][NextBand]_vars

(***************************************************************************)
(* normalizeAnswer and the verdict of evaluate() on strings that differ    *)
(* only in letter case and in whitespace and hyphen characters             *)
(***************************************************************************)
NormChars == {"a", "A", " ", "-"}
Separators == {" ", "-", "\t"}
StringsUpTo(chars, n) == UNION {[1..k -> chars] : k \in 0..n}

exampleHyphen == <<"N","e","w","-","Y","o","r","k">>
exampleSpaces == <<" ","n","e","w"," ","y","o","r","k"," ">>
exampleUpper == <<"N","E","W","Y","O","R","K">>
NormExamples == {exampleHyphen, exampleSpaces, exampleUpper}

NormPending == [done |-> FALSE, x |-> <<>>, y |-> <<>>, status |-> ""]

isLetter(c) == c \in Range(UpperChars) \/ c \in Range(LowerChars)
swapCase(c) ==
    IF c \in Range(UpperChars) THEN LowerChars[IndexOf(c, UpperChars)]
    ELSE IF c \in Range(LowerChars) THEN UpperChars[IndexOf(c, LowerChars)]
    ELSE c

\* normX (the key) and normY (the user answer) start equal, or as two of the
\* example spellings; normY is then changed in case and in separators only.
InitNorm ==
    /\ UIInit
    /\ bandSection = "" /\ bandCorrect = 0 /\ bandOut = BandPending
    /\ parseIn = <<>> /\ parseOut = <<>>
    /\ \/ (normX \in StringsUpTo(NormChars, MaxLen) /\ normY = normX)
       \/ (normX \in NormExamples /\ normY \in NormExamples)
    /\ normOut = NormPending

flipCase ==
    /\ Len(normX) <= MaxLen
    /\ \E i \in 1..Len(normY) :
          /\ isLetter(normY[i])
          /\ normY' = [normY EXCEPT ![i] = swapCase(@)]
    /\ normOut' = NormPending
    /\ UNCHANGED <<normX, uiVars, bandVars, parseVars>>

insertSeparator ==
    /\ Len(normY) <= MaxLen
    /\ \E i \in 0..Len(normY), c \in Separators :
          normY' = SubSeq(normY, 1, i) \o <<c>> \o SubSeq(normY, i + 1, Len(normY))
    /\ normOut' = NormPending
    /\ UNCHANGED <<normX, uiVars, bandVars, parseVars>>

deleteSeparator ==
    /\ Len(normX) <= MaxLen
    /\ \E i \in 1..Len(normY) :
          /\ normY[i] \in Separators
          /\ normY' = SubSeq(normY, 1, i - 1) \o SubSeq(normY, i + 1, Len(normY))
    /\ normOut' = NormPending
    /\ UNCHANGED <<normX, uiVars, bandVars, parseVars>>

\* normalizeAnswer on both strings, and the loop body of evaluate() on a
\* question whose key edit holds normX and whose user edit holds normY.
normalizeStep ==
    /\ ~normOut.done
    /\ normOut' = [done |-> TRUE,
                   x |-> normalizeAnswer(normX),
                   y |-> normalizeAnswer(normY),
                   status |-> evaluateSlot(normY, normX).status]
    /\ UNCHANGED <<normX, normY, uiVars, bandVars, parseVars>>

NextNorm ==
    \/ flipCase
    \/ insertSeparator
    \/ deleteSeparator
    \/ normalizeStep

SpecNorm == InitNorm /\ [][NextNorm]_vars

(***************************************************************************)
(* parseAnswerText on one generated line                                   *)
(***************************************************************************)
NumValues == {0, 3, 40, 41}
AnswerTokens == { <<"A">>, <<"E">>, <<"a"," ","b">> }
SeqsUpTo(S, n) == UNION {[1..k -> S] : k \in 1..n}

\* Decimal numeral of n < 100, with a leading zero when padded.
numeral(n, padded) ==
    IF n >= 10 THEN <<DigitChars[(n \div 10) + 1], DigitChars[(n % 10) + 1]>>
    ELSE IF padded THEN <<"0", DigitChars[n + 1]>>
    ELSE <<DigitChars[n + 1]>>

RECURSIVE join(_, _)
join(parts, sep) ==
    IF Len(parts) = 1 THEN parts[1]
    ELSE parts[1] \o sep \o join(Tail(parts), sep)

lineOf(numbers, answerList, padded, gap, comma) ==
    join([i \in DOMAIN numbers |-> numeral(numbers[i], padded)], <<"&">>)
        \o gap \o join(answerList, comma)

ParsePending == [done |-> FALSE, mapping |-> <<>>]

ParseExamples ==
    { [numbers |-> <<21, 22>>, answers |-> << <<"A">>, <<"E">> >>],
      [numbers |-> <<3, 4, 5>>, answers |-> << <<"X">> >>] }

InitParse ==
    /\ UIInit
    /\ normX = <<>> /\ normY = <<>> /\ normOut = <<>>
    /\ bandSection = "" /\ bandCorrect = 0 /\ bandOut = BandPending
    /\ \E in \in [numbers : SeqsUpTo(NumValues, MaxNums),
                   answers : SeqsUpTo(AnswerTokens, MaxAnswers)] \cup ParseExamples,
          padded \in BOOLEAN,
          gap \in {<<" ">>, <<" ", "\t", " ">>},
          comma \in {<<",">>, <<" ", ",", " ">>} :
          parseIn = [numbers |-> in.numbers, answers |-> in.answers,
                     text |-> lineOf(in.numbers, in.answers, padded, gap, comma)]
    /\ parseOut = ParsePending

parseStep ==
    /\ ~parseOut.done
    /\ parseOut' = [done |-> TRUE, mapping |-> parseAnswerText(parseIn.text)]
    /\ UNCHANGED <<parseIn, uiVars, normVars, bandVars>>

NextParse == parseStep

SpecParse == InitParse /\ [][NextParse]_vars

Init ==
    /\ UIInit
    /\ normX = <<>> /\ normY = <<>> /\ normOut = <<>>
    /\ bandSection = "" /\ bandCorrect = 0 /\ bandOut = BandPending
    /\ parseIn = <<>> /\ parseOut = <<>>

Next ==
    \/ (typeUser /\ UNCHANGED <<normVars, bandVars, parseVars>>)
    \/ (typeKey /\ UNCHANGED <<normVars, bandVars, parseVars>>)
    \/ (showLanding /\ UNCHANGED <<normVars, bandVars, parseVars>>)
    \/ (startListening /\ UNCHANGED <<normVars, bandVars, parseVars>>)
    \/ (startReading /\ UNCHANGED <<normVars, bandVars, parseVars>>)
    \/ (submitAnswers /\ UNCHANGED <<normVars, bandVars, parseVars>>)
    \/ (previewAnswers /\ UNCHANGED <<normVars, bandVars, parseVars>>)
    \/ (clearActive /\ UNCHANGED <<normVars, bandVars, parseVars>>)
    \/ (saveAnswers /\ UNCHANGED <<normVars, bandVars, parseVars>>)
    \/ (pasteAnswerKeys /\ UNCHANGED <<normVars, bandVars, parseVars>>)

Spec == Init /\ [][Next]_vars

(***************************************************************************)
(* Properties                                                              *)
(***************************************************************************)
\* A text of whitespace only (the empty text included).
blank(s) == \A i \in 1..Len(s) : isSpace(s[i])

\* Questions of panel p whose key is not blank, and those of them whose user
\* answer normalises to the same string as the key.
CountedKeys(p) == {i \in Slots(p) : ~blank(keyText[p][i])}
MatchingKeys(p) ==
    {i \in CountedKeys(p) : normalizeAnswer(userText[p][i]) = normalizeAnswer(keyText[p][i])}
NonEmptyKeys(p) == {i \in Slots(p) : keyText[p][i] # <<>>}

Evaluated == lastOp = "submitAnswers" /\ msg = "" /\ activePanel # NoPanel

\* C1, as stated: evaluatedCount is the number of questions whose key text is
\* not empty, correctCount the number of those whose normalised user answer
\* equals the normalised key.
C1_CountsNonEmptyKeys ==
    Evaluated =>
        LET p == activePanel
            r == evaluate(userText[p], keyText[p], statusText[p])
        IN /\ r.evaluated = Cardinality(NonEmptyKeys(p))
           /\ r.correct = Cardinality({i \in NonEmptyKeys(p) :
                  normalizeAnswer(userText[p][i]) = normalizeAnswer(keyText[p][i])})

\* C1, amended: for every content of the edits of a panel, evaluate() returns
\* as evaluatedCount the number of questions whose key is not blank (not
\* empty once trimmed), as correctCount the number of those whose normalised
\* user answer equals the normalised key, with correctCount <= evaluatedCount
\* <= number of questions; a question with an empty key gets no verdict.  After
\* a submit that evaluated, the score text carries that correctCount and every
\* counted question shows its verdict.
C1_EvaluateCounts ==
    \A p \in Panels :
        LET r == evaluate(userText[p], keyText[p], statusText[p])
        IN /\ r.evaluated = Cardinality(CountedKeys(p))
           /\ r.correct = Cardinality(MatchingKeys(p))
           /\ r.correct <= r.evaluated
           /\ r.evaluated <= questionCount(p)
           /\ \A i \in Slots(p) : keyText[p][i] = <<>> => r.status[i] = ""
           /\ (Evaluated /\ p = activePanel) =>
                 /\ scoreText # NoText
                 /\ scoreText[2] = Cardinality(MatchingKeys(p))
                 /\ \A i \in Slots(p) :
                       statusText[p][i] =
                           IF i \notin CountedKeys(p) THEN ""
                           ELSE IF i \in MatchingKeys(p) THEN "correct"
                           ELSE "incorrect"

\* A submit evaluated questions answered rightly, questions answered wrongly
\* and a question whose key is blank but not empty.
C1_Witness ==
    /\ Evaluated
    /\ \E i, j, k \in Slots(activePanel) :
          /\ statusText[activePanel][i] = "correct"
          /\ statusText[activePanel][j] = "incorrect"
          /\ keyText[activePanel][k] # <<>> /\ statusText[activePanel][k] = ""

bandTableOf(sectionName) ==
    IF sectionName = "Listening" THEN listeningBandTable ELSE readingBandTable

\* C3: for each section and every count 0..40 lookupBand returns the band of
\* the entry with the largest minCorrect that is <= the count (the first such
\* entry of the table, which is in descending minCorrect order), never the
\* fall-through value; count 0 gives 2.0, Listening 39 gives 9.0 and Reading
\* 33 gives 7.5.
C3_LookupBand ==
    bandOut # BandPending =>
        LET t == bandTableOf(bandSection)
        IN /\ \A i, j \in 1..Len(t) : i < j => t[i][1] > t[j][1]
           /\ \E i \in 1..Len(t) :
                 /\ t[i][1] <= bandCorrect
                 /\ \A j \in 1..Len(t) : t[j][1] <= bandCorrect => t[j][1] <= t[i][1]
                 /\ bandOut = t[i][2]
           /\ bandOut # fallThroughBand
           /\ (bandCorrect = 0 => bandOut = 20)
           /\ (bandSection = "Listening" /\ bandCorrect = 39 => bandOut = 90)
           /\ (bandSection = "Reading" /\ bandCorrect = 33 => bandOut = 75)

C3_Witness == bandSection = "Reading" /\ bandCorrect = 33 /\ bandOut = 75

InRange(n) == n >= 1 /\ n <= kNumQuestions
\* The answer the claim pairs with the number at position i of the line.
pairedAnswer(i) ==
    LET m == Len(parseIn.answers)
    IN parseIn.answers[IF i <= m THEN i ELSE m]

\* C4, as stated: every in-range number n_i of the line is mapped to a_i when
\* i <= m and to the last answer a_m when i > m.
C4_EveryNumberByPosition ==
    parseOut.done =>
        \A i \in DOMAIN parseIn.numbers :
            InRange(parseIn.numbers[i]) =>
                /\ parseIn.numbers[i] \in DOMAIN parseOut.mapping
                /\ parseOut.mapping[parseIn.numbers[i]] = pairedAnswer(i)

\* C4, amended: every in-range number n_i that does not occur again later in
\* the line is mapped to a_i when i <= m and to the last answer a_m when
\* i > m (a repeated number keeps the answer of its last occurrence), and
\* nothing but the in-range numbers of the line is mapped.
C4_LastOccurrenceByPosition ==
    parseOut.done =>
        /\ \A i \in DOMAIN parseIn.numbers :
              (/\ InRange(parseIn.numbers[i])
               /\ \A j \in DOMAIN parseIn.numbers : j > i => parseIn.numbers[j] # parseIn.numbers[i])
              => /\ parseIn.numbers[i] \in DOMAIN parseOut.mapping
                 /\ parseOut.mapping[parseIn.numbers[i]] = pairedAnswer(i)
        /\ DOMAIN parseOut.mapping = {n \in Range(parseIn.numbers) : InRange(n)}

\* "3&4&5  X" is parsed to {3: X, 4: X, 5: X}.
C4_Witness ==
    /\ parseOut.done
    /\ parseIn.numbers = <<3, 4, 5>>
    /\ parseIn.answers = << <<"X">> >>
    /\ DOMAIN parseOut.mapping = {3, 4, 5}
    /\ \A n \in {3, 4, 5} : parseOut.mapping[n] = <<"X">>

ButtonOps == {"submitAnswers", "previewAnswers", "clearActive", "saveAnswers",
              "pasteAnswerKeys"}

\* C5: on the landing page submit, preview, clear, save and paste only show
\* the information message; no user answer, key, verdict, score text or page
\* changes.
C5_NoActiveSection ==
    [][(currentIndex = 0 /\ lastOp' \in ButtonOps) =>
          /\ msg' = "information: Select a section"
          /\ userText' = userText
          /\ keyText' = keyText
          /\ statusText' = statusText
          /\ scoreText' = scoreText
          /\ currentIndex' = currentIndex]_vars

\* Clear was invoked on the landing page while the Listening panel held a key
\* and a verdict.
C5_Witness ==
    /\ currentIndex = 0
    /\ lastOp = "clearActive"
    /\ msg = "information: Select a section"
    /\ keyText[1][1] # <<>>
    /\ statusText[1][1] # ""

\* C6: a submit on a section whose keys are all blank is reported as a
\* validation failure and changes no verdict, no score text, no answer and
\* no key.
C6_BlankKeysRejected ==
    [][(lastOp' = "submitAnswers" /\ activePanel # NoPanel
            /\ \A i \in Slots(activePanel) : blank(keyText[activePanel][i])) =>
          /\ msg' = "warning: Missing answer keys"
          /\ statusText' = statusText
          /\ scoreText' = scoreText
          /\ userText' = userText
          /\ keyText' = keyText]_vars

\* A submit was rejected on a section that holds a key of whitespace and
\* still shows an earlier score.
C6_Witness ==
    /\ lastOp = "submitAnswers"
    /\ msg = "warning: Missing answer keys"
    /\ activePanel # NoPanel
    /\ scoreText # NoText
    /\ \E i \in Slots(activePanel) : keyText[activePanel][i] # <<>>

\* C7: after Clear on an active section every user answer and every key of
\* that section is empty and every question of it has no verdict.
C7_ClearResets ==
    (lastOp = "clearActive" /\ activePanel # NoPanel) =>
        \A i \in Slots(activePanel) :
            /\ userText[activePanel][i] = <<>>
            /\ keyText[activePanel][i] = <<>>
            /\ statusText[activePanel][i] = ""

\* Clear ran on the Listening section after some input, the Reading section
\* empty.
C7_Witness ==
    /\ lastOp = "clearActive"
    /\ currentIndex = 1
    /\ msg = ""
    /\ edits > 0
    /\ \A i \in Slots(2) : keyText[2][i] = <<>> /\ userText[2][i] = <<>>

\* C8: a submit, successful or not, leaves every user answer and every key of
\* both sections as they were, and stays on the page.
C8_SubmitKeepsFields ==
    [][lastOp' = "submitAnswers" =>
          /\ userText' = userText
          /\ keyText' = keyText
          /\ currentIndex' = currentIndex]_vars

\* A submit evaluated a section in which a key has surrounding whitespace to
\* trim or a hyphen to normalise away.
C8_Witness ==
    /\ Evaluated
    /\ scoreText # NoText
    /\ \E i \in Slots(activePanel) :
          /\ statusText[activePanel][i] = "correct"
          /\ keyText[activePanel][i] # normalizeAnswer(keyText[activePanel][i])

\* C9: right after startListening or startReading the score text is empty and
\* the page of that section is shown.
C9_StartResetsScore ==
    /\ lastOp = "startListening" => (scoreText = NoText /\ currentIndex = 1)
    /\ lastOp = "startReading" => (scoreText = NoText /\ currentIndex = 2)

\* A section was entered again after a submit had evaluated it.
C9_Witness ==
    /\ lastOp = "startListening"
    /\ \E i \in Slots(1) : statusText[1][i] = "correct"
    /\ scoreText = NoText

AcceptedPaste == lastOp' = "pasteAnswerKeys" /\ pasteDialog'.accepted

\* C10, as stated: an accepted paste sets the key of question n of the active
\* section to mapping[n] when n is in the parsed mapping and leaves every
\* other key and every user answer; with an empty mapping it also leaves the
\* verdicts and the score text.
C10_PasteWritesMapping ==
    [][AcceptedPaste =>
          LET mapping == parsedPaste[pasteDialog'.text]
          IN /\ activePanel # NoPanel
             /\ userText' = userText
             /\ \A p \in Panels : \A n \in Slots(p) :
                   keyText'[p][n] =
                       IF p = activePanel /\ n \in DOMAIN mapping
                       THEN mapping[n] ELSE keyText[p][n]
             /\ (DOMAIN mapping = {}) =>
                   (statusText' = statusText /\ scoreText' = scoreText)]_vars

\* C10, amended: as stated, except that the key of a question n of the
\* mapping then holds the first kMaxLength (32) characters of mapping[n].
C10_PasteWritesTruncated ==
    [][AcceptedPaste =>
          LET mapping == parsedPaste[pasteDialog'.text]
          IN /\ activePanel # NoPanel
             /\ userText' = userText
             /\ \A p \in Panels : \A n \in Slots(p) :
                   keyText'[p][n] =
                       IF p = activePanel /\ n \in DOMAIN mapping
                       THEN (IF Len(mapping[n]) > kMaxLength
                             THEN SubSeq(mapping[n], 1, kMaxLength) ELSE mapping[n])
                       ELSE keyText[p][n]
             /\ (DOMAIN mapping = {}) =>
                   (statusText' = statusText /\ scoreText' = scoreText)]_vars

\* A paste of four keys was accepted on a section whose question 1 had a
\* user answer, and its question 2 kept its empty key.
C10_Witness ==
    /\ lastOp = "pasteAnswerKeys"
    /\ pasteDialog = [accepted |-> TRUE, text |-> pasteKeysText]
    /\ activePanel # NoPanel
    /\ userText[activePanel][1] # <<>>
    /\ keyText[activePanel][1] = <<"a", " ", "b">>
    /\ keyText[activePanel][2] = <<>>
    /\ keyText[activePanel][22] = <<"E">>

\* The score text is empty, or names the section of the page shown.
ScoreNamesActive ==
    scoreText # NoText =>
        /\ currentIndex # 0
        /\ scoreText[1] = sectionNameOf(currentIndex)

\* A paste that was accepted and gave a mapping that is not empty.
SuccessfulPaste ==
    lastOp' = "pasteAnswerKeys" /\ pasteDialog'.accepted /\ msg' = ""

\* C11: in every state a score text that is not empty names the section of
\* the page shown (so the landing page shows none, and no page shows the
\* score of the other section); a score text appears or changes only by a
\* submit that evaluated the section shown, and back, the two starts, a
\* clear on a section and a successful paste leave the score text empty.
C11_ScoreOfActiveSubmit ==
    [][/\ ScoreNamesActive
       /\ ScoreNamesActive'
       /\ (scoreText' # NoText /\ scoreText' # scoreText) =>
             /\ lastOp' = "submitAnswers"
             /\ msg' = ""
             /\ currentIndex # 0
             /\ scoreText'[1] = sectionNameOf(currentIndex)
       /\ lastOp' \in {"showLanding", "startListening", "startReading"} =>
             scoreText' = NoText
       /\ (lastOp' = "clearActive" /\ currentIndex # 0) => scoreText' = NoText
       /\ SuccessfulPaste => scoreText' = NoText]_vars

\* The Reading page still shows the score of a submit on Reading after a
\* preview.
C11_Witness ==
    /\ currentIndex = 2
    /\ lastOp = "previewAnswers"
    /\ scoreText # NoText
    /\ scoreText[1] = "Reading"

====
